---- MODULE Spec2Model ----
(***************************************************************************)
(* Model of segmetrics: Study (study.py), Measure / ObjectMeasureAdapter   *)
(* (measure.py) and the Dice image measure (regional.py).                  *)
(*                                                                         *)
(* Arrays are records [id, dtype, shape, data]: `id` is the identity of    *)
(* the Python object (what `is` compares), `shape` the numpy shape, `data` *)
(* the elements in row-major order.  Distances are kept squared: the code  *)
(* only compares distance-transform values with min, max and <=, which     *)
(* squaring preserves.  Scores are exact fractions [num, den].             *)
(***************************************************************************)
EXTENDS Integers, Sequences, FiniteSets, TLC

\* ------------------------------------------------------------------ bounds
GridH == 2
GridW == 2
MaxLabel == 2
MaxHistory == 2

NPix == GridH * GridW
Pixels == 1..NPix

\* ------------------------------------------------------- generic helpers
SetMin(S) == CHOOSE x \in S : \A y \in S : x <= y
SetMax(S) == CHOOSE x \in S : \A y \in S : x >= y

RECURSIVE SortedSeq(_)
SortedSeq(S) == IF S = {} THEN << >> ELSE <<SetMin(S)>> \o SortedSeq(S \ {SetMin(S)})

RECURSIVE Gcd(_, _)
Gcd(a, b) == IF b = 0 THEN a ELSE Gcd(b, a % b)

\* `v = x` followed by the code that uses v: x is worked out once
Bind(x, F(_)) == CHOOSE out \in {F(v) : v \in {x}} : TRUE

Frac(n, d) == [num |-> n \div Gcd(n, d), den |-> d \div Gcd(n, d)]
FracLeq(x, y) == x.num * y.den <= y.num * x.den

\* ------------------------------------------------------------ identities
NoneId  == 0          \* Python None in the cache slot
FreshId == 0 - 1      \* an array object created inside the call (a view or a copy)

\* `key is actual` for a cached object identity and an array
IsSameNever(key, arr) == FALSE
IsSame(key, arr) == key = arr.id /\ arr.id # FreshId

NoRef == [shape |-> << >>, data |-> << >>]   \* attribute `expected` not set
Content(arr) == [shape |-> arr.shape, data |-> arr.data]

\* ------------------------------------------------------------ numpy bits
NotUnit(d) == d # 1
squeeze(arr) ==
    LET s == SelectSeq(arr.shape, NotUnit)
    IN  IF s = arr.shape THEN arr
        ELSE [id |-> FreshId, dtype |-> arr.dtype, shape |-> s, data |-> arr.data]

ndim(arr) == Len(arr.shape)
ArrayMin(arr) == SetMin({arr.data[i] : i \in DOMAIN arr.data})

Row(p, w) == (p - 1) \div w
Col(p, w) == (p - 1) % w
Dist2(p, q, w) == (Row(p, w) - Row(q, w)) * (Row(p, w) - Row(q, w))
                + (Col(p, w) - Col(q, w)) * (Col(p, w) - Col(q, w))

LabelsOf(c) == {c.data[i] : i \in DOMAIN c.data} \ {0}
MaskOf(c, l) == {i \in DOMAIN c.data : c.data[i] = l}

\* ------------------------------------------------- study.py: labelling
_is_boolean(arr)  == arr.dtype = "bool"
_is_integral(arr) == arr.dtype = "int"

Adjacent(p, q, w) ==
    \/ Row(p, w) = Row(q, w) /\ (Col(p, w) - Col(q, w)) \in {0 - 1, 1}
    \/ Col(p, w) = Col(q, w) /\ (Row(p, w) - Row(q, w)) \in {0 - 1, 1}

\* connected components by propagating the smallest pixel index along equal
\* neighbours until nothing changes: rep[p] is the first pixel of p's component
RECURSIVE Components(_, _)
Components(neigh, rep) ==
    LET nxt == [p \in DOMAIN rep |-> SetMin({rep[q] : q \in neigh[p] \cup {p}})]
    IN  IF nxt = rep THEN rep ELSE Components(neigh, nxt)

\* skimage.measure.label(im, background=0, neighbors=4): components of equal
\* value, numbered in raster order from bg + 1, the background numbered bg.
SkimageLabel(arr, bg) ==
    LET w == arr.shape[2]
        fg == {q \in DOMAIN arr.data : arr.data[q] # 0}
        neigh == [p \in fg |->
                    {q \in fg : Adjacent(p, q, w) /\ arr.data[q] = arr.data[p]}]
        rep == Components(neigh, [p \in fg |-> p])
        reps == {rep[p] : p \in fg}
    IN  [p \in DOMAIN arr.data |->
            IF arr.data[p] = 0 THEN bg
            ELSE bg + Cardinality({r \in reps : r <= rep[p]})]

\* the background index of the installed skimage (older versions: -1)
_SKIMAGE_MEASURE_LABEL_BF_LABEL == 0 - 1

label(arr) ==
    LET labelled == SkimageLabel(arr, _SKIMAGE_MEASURE_LABEL_BF_LABEL)
    IN  [id |-> FreshId, dtype |-> "int", shape |-> arr.shape,
         data |-> [p \in DOMAIN arr.data |->
                     labelled[p] - _SKIMAGE_MEASURE_LABEL_BF_LABEL]]

\* the two assertions of _get_labeled
_get_labeled_ok(arr, unique) ==
    /\ _is_integral(arr) \/ _is_boolean(arr)
    /\ ~unique \/ ~_is_boolean(arr)
_get_labeledAlways(arr, unique) == label(arr)
_get_labeled(arr, unique) == IF unique THEN arr ELSE label(arr)

\* ------------------------------------------- regional.py: Dice.compute
DiceOk(exp, act) == exp # NoRef /\ exp.shape = act.shape
Dice(exp, act) ==
    LET ref == {i \in DOMAIN exp.data : exp.data[i] > 0}
        res == {i \in DOMAIN act.data : act.data[i] > 0}
        denominator == Cardinality(ref) + Cardinality(res)
    IN  IF denominator > 0
        THEN Frac(2 * Cardinality(ref \cap res), denominator)
        ELSE Frac(1, 1)

\* --------------------------------------------- _aux.bbox (margin = 1)
bbox(ref_cc, seg_cc, shape) ==
    LET w == shape[2]
        u == ref_cc \cup seg_cc
        rows == {Row(p, w) : p \in u}
        cols == {Col(p, w) : p \in u}
    IN  [rmin |-> SetMax({SetMin(rows) - 1, 0}),
         rmax |-> SetMin({SetMax(rows) + 1, shape[1] - 1}),
         cmin |-> SetMax({SetMin(cols) - 1, 0}),
         cmax |-> SetMin({SetMax(cols) + 1, shape[2] - 1})]

\* mask[_bbox].astype('uint8')
Crop(mask, b, shape) ==
    LET ch == b.rmax - b.rmin + 1
        cw == b.cmax - b.cmin + 1
        src(k) == (b.rmin + Row(k, cw)) * shape[2] + b.cmin + Col(k, cw) + 1
    IN  [shape |-> <<ch, cw>>,
         data |-> [k \in 1..(ch * cw) |-> IF src(k) \in mask THEN 1 ELSE 0]]

\* ------------------------------- measure.py: the measure objects in use
Adapters == {"A1", "A2"}          \* ObjectMeasureAdapter instances
ImageMeasures == {"D1"}           \* Dice instance
MeasureObjs == Adapters \cup ImageMeasures
Unset == "unset"

\* constructor arguments: A1 = ObjectMeasureAdapter(D1, min), A2 = (D1, max)
WrappedMeasure(a) == "D1"
correspondance_function(a) == IF a = "A1" THEN "min" ELSE "max"

\* what `self.distance` evaluates to in compute: the constructor stores the
\* wrapped measure as `self.measure`; no code assigns `distance`.
DistanceAttrIsMeasure(a) == WrappedMeasure(a)
DistanceAttr(a) == Unset

Reduce(fn, ds) ==
    LET S == {ds[i] : i \in DOMAIN ds}
    IN  IF fn = "min" THEN CHOOSE x \in S : \A y \in S : FracLeq(x, y)
        ELSE CHOOSE x \in S : \A y \in S : FracLeq(y, x)

\* lines 149-164: the distance-transform pruning for reference label r.
\* ref_distancemap at pixel p: the (squared) distance to the nearest pixel of r
ref_distancemap(exp, r, p) ==
    SetMin({Dist2(p, q, exp.shape[2]) : q \in MaskOf(exp, r)})

MinDistance(exp, r, act, l) ==
    SetMin({ref_distancemap(exp, r, p) : p \in MaskOf(act, l)})

\* min(seg_labels, key=...): the first minimal label in iteration order, which
\* for a set of small non-negative integers is ascending
closest_potential_seg_label(exp, r, act) ==
    LET d == [l \in LabelsOf(act) |-> MinDistance(exp, r, act, l)]
    IN  SetMin({l \in LabelsOf(act) : \A k \in LabelsOf(act) : d[l] <= d[k]})

max_potential_seg_label_distance(exp, r, act) ==
    SetMax({ref_distancemap(exp, r, p) :
              p \in MaskOf(act, closest_potential_seg_label(exp, r, act))})

Prune(exp, r, act) ==
    LET dmax == max_potential_seg_label_distance(exp, r, act)
    IN  SortedSeq({l \in LabelsOf(act) : MinDistance(exp, r, act, l) <= dmax})

EmptyMap == [l \in {} |-> << >>]
PutMap(map, r, list) ==
    [l \in (DOMAIN map) \cup {r} |-> IF l = r THEN list ELSE map[l]]

\* lines 173-180 once `self.distance` is resolved: one score per candidate
Distances(exp, r, act, list) ==
    [i \in DOMAIN list |->
        LET ref_cc == MaskOf(exp, r)
            seg_cc == MaskOf(act, list[i])
            _bbox  == bbox(ref_cc, seg_cc, exp.shape)
        IN  Dice(Crop(ref_cc, _bbox, exp.shape), Crop(seg_cc, _bbox, exp.shape))]

\* the reference the wrapped measure is left with by line 177
LastCroppedReference(exp, r, act, list) ==
    LET ref_cc == MaskOf(exp, r)
        seg_cc == MaskOf(act, list[Len(list)])
    IN  Crop(ref_cc, bbox(ref_cc, seg_cc, exp.shape), exp.shape)

\* lines 134-137: what a reference object records when nothing was detected
NoDetectionResultsPositive(res, nd) ==
    IF nd > 0 THEN Append(res, Frac(nd, 1)) ELSE res
NoDetectionResults(res, nd) ==
    IF nd >= 0 THEN Append(res, Frac(nd, 1)) ELSE res

\* lines 129-181: the loop over the reference labels, in iteration order.
\* acc = [status, results, map, lookups, invoked, wexp]
RECURSIVE ComputeLoop(_, _, _, _, _, _)
ComputeLoop(a, exp, act, nd, labels, acc) ==
    IF labels = << >> THEN acc
    ELSE
      LET ref_label == Head(labels)
      IN  IF LabelsOf(act) = {}
          THEN ComputeLoop(a, exp, act, nd, Tail(labels),
                   [acc EXCEPT !.results = NoDetectionResults(@, nd)])
          ELSE
            LET hit == ref_label \in DOMAIN acc.map
            IN  Bind(IF hit THEN acc.map[ref_label]
                     ELSE Prune(exp, ref_label, act), LAMBDA list :
                Bind([acc EXCEPT
                        !.map = IF hit THEN @ ELSE PutMap(@, ref_label, list),
                        !.lookups = Append(@, [m |-> a, label |-> ref_label,
                                               hit |-> hit, list |-> list])],
                     LAMBDA acc1 :
                IF Len(list) = 0
                THEN ComputeLoop(a, exp, act, nd, Tail(labels), acc1)
                ELSE IF DistanceAttr(a) = Unset
                THEN [acc1 EXCEPT !.status = "AttributeError"]
                ELSE Bind([acc1 EXCEPT
                          !.results = Append(@, Reduce(correspondance_function(a),
                                             Distances(exp, ref_label, act, list))),
                          !.invoked = @ + Len(list),
                          !.wexp = LastCroppedReference(exp, ref_label, act, list)],
                       LAMBDA acc2 :
                     ComputeLoop(a, exp, act, nd, Tail(labels), acc2))))

\* ObjectMeasureAdapter.compute(actual) for adapter a, given the references
\* `exps` of all measures, the class-wide cache and a.nodetections.
\* Returns the outcome, the returned list, and the state it leaves behind.
ObjectCompute(a, actual, exps, mapping, nd) ==
    LET act == Content(actual)
        mapping1 == IF ~IsSame(mapping.img, actual)
                    THEN [img |-> actual.id, map |-> EmptyMap]
                    ELSE mapping
        start == [status |-> "ok", results |-> << >>, map |-> mapping1.map,
                  lookups |-> << >>, invoked |-> 0, wexp |-> NoRef]
    IN  Bind(IF exps[a] = NoRef
             THEN [start EXCEPT !.status = "AttributeError"]
             ELSE Bind(SortedSeq(LabelsOf(exps[a])), LAMBDA labels :
                       ComputeLoop(a, exps[a], act, nd, labels, start)),
             LAMBDA acc :
        [status  |-> acc.status,
         ret     |-> IF acc.status = "ok" THEN acc.results ELSE << >>,
         mapping |-> [img |-> mapping1.img, map |-> acc.map],
         exps    |-> IF acc.invoked > 0
                     THEN [exps EXCEPT ![DistanceAttr(a)] = acc.wexp]
                     ELSE exps,
         lookups |-> acc.lookups,
         invoked |-> acc.invoked])

\* Dice.compute(actual) on the Dice instance d
DiceCompute(d, actual, exps, mapping) ==
    LET okay == DiceOk(exps[d], Content(actual))
    IN  [status  |-> IF okay THEN "ok"
                     ELSE IF exps[d] = NoRef THEN "AttributeError" ELSE "ValueError",
         ret     |-> IF okay THEN <<Dice(exps[d], Content(actual))>> ELSE << >>,
         mapping |-> mapping,
         exps    |-> exps,
         lookups |-> << >>,
         invoked |-> 0]

\* measure.compute(actual), dispatched on the class of m
Compute(m, actual, exps, mapping, nds) ==
    IF m \in Adapters THEN ObjectCompute(m, actual, exps, mapping, nds[m])
    ELSE DiceCompute(m, actual, exps, mapping)

\* ------------------------------------------------ the arrays callers pass
TwoObjects == [p \in Pixels |-> IF p = 1 THEN 1 ELSE IF p = NPix THEN 2 ELSE 0]
FarObject  == [p \in Pixels |-> IF p = NPix THEN 1 ELSE 0]
NoObjects  == [p \in Pixels |-> 0]
TwoBlobs   == [p \in Pixels |-> IF p = 1 \/ p = NPix THEN 1 ELSE 0]
AllOnes    == [p \in Pixels |-> 1]
Plane      == <<GridH, GridW>>

Arr(i, t, s, d) == [id |-> i, dtype |-> t, shape |-> s, data |-> d]
ImgTwo     == Arr(1, "int", Plane, TwoObjects)
ImgTwoCopy == Arr(2, "int", Plane, TwoObjects)     \* equal pixels, other object
ImgFar     == Arr(3, "int", Plane, FarObject)
ImgEmpty   == Arr(4, "int", Plane, NoObjects)
ImgMask    == Arr(5, "bool", Plane, TwoBlobs)
ImgFull    == Arr(6, "int", Plane, AllOnes)        \* minimum 1: no background
ImgFloat   == Arr(7, "float", Plane, TwoObjects)
ImgStack   == Arr(8, "int", <<1, GridH, GridW>>, TwoObjects)
ImgVolume  == Arr(9, "int", <<2, GridH, GridW>>, NoObjects \o NoObjects)
ImgLine    == Arr(10, "int", <<1, NPix>>, TwoObjects)

StudyCalls == {<<ImgTwo, TRUE>>, <<ImgEmpty, TRUE>>}
CacheCalls == {<<ImgTwo, TRUE>>, <<ImgTwo, FALSE>>, <<ImgTwoCopy, TRUE>>,
               <<ImgStack, TRUE>>, <<ImgEmpty, TRUE>>}
ValidateCalls == {ImgTwo, ImgMask, ImgFull, ImgFloat, ImgStack, ImgVolume,
                  ImgLine} \X BOOLEAN
\* every labelled image on the grid, as the reference (object 100) and as the
\* candidate (object 101) of an adapter
GridData == [Pixels -> 0..MaxLabel]
GridInputs == {[m |-> a, ref |-> Arr(100, "int", Plane, r),
                cand |-> Arr(101, "int", Plane, c)] :
                 a \in Adapters, r \in GridData, c \in GridData}
RefImages == {ImgTwo, ImgFar, ImgEmpty}
CandImages == {ImgTwo, ImgTwoCopy, ImgEmpty}
NoArr == Arr(NoneId, "int", << >>, << >>)

StudyMeasures == {"A1", "D1"}
None == "None"
StudyNames == {"n1", "n2"}
ValidateNames == {"n1", None}
Sentinels == {0 - 1, 0}
MaxMeasures == 2

\* ------------------------------------------------------------------ state
VARIABLES
    names,         \* Study.measures: the keys in insertion order
    measures,      \* Study.measures: key -> measure object
    results,       \* Study.results: key -> list of scores
    expected,      \* measure object -> its attribute `expected`
    nodetections,  \* adapter -> its attribute `nodetections`
    _obj_mapping,  \* ObjectMeasureAdapter._obj_mapping (class attribute)
    last,          \* the call that was made last and what it did
    studyRef,      \* what the last successful Study.set_expected propagated
    studyHolders,  \* the measure objects it propagated to
    input          \* inputs of the exhaustive grid runs

vars == <<names, measures, results, expected, nodetections, _obj_mapping,
          last, studyRef, studyHolders, input>>

\* before any call was made
NoCall ==
    [op |-> "init", m |-> "-", arr |-> NoArr, unique |-> TRUE, outcome |-> "ok",
     ret |-> << >>, computed |-> EmptyMap, failedAt |-> 0, lookups |-> << >>,
     invoked |-> 0, tick |-> 0]

\* a call and its outcome; tick alternates, so that a call repeated with the
\* same effect is still seen as another call
Call(op, m, arr, unique, outcome, ret) ==
    [NoCall EXCEPT !.op = op, !.m = m, !.arr = arr, !.unique = unique,
                   !.outcome = outcome, !.ret = ret, !.tick = 1 - last.tick]

NoInput == [m |-> "A1", ref |-> NoArr, cand |-> NoArr]

InitWith(inp) ==
    /\ names = << >>
    /\ measures = EmptyMap
    /\ results = EmptyMap
    /\ expected = [m \in MeasureObjs |-> NoRef]
    /\ nodetections = [a \in Adapters |-> 0 - 1]
    /\ _obj_mapping = [img |-> NoneId, map |-> EmptyMap]
    /\ last = NoCall
    /\ studyRef = NoRef
    /\ studyHolders = {}
    /\ input = inp

Init == InitWith(NoInput)

\* ------------------------------------------------------- measure.py calls
\* Measure.set_expected / ObjectMeasureAdapter.set_expected
SetExpectedOn(m, exp, exps)    == [exps EXCEPT ![m] = exp]
MappingAfterSetKept(m, mapping) == mapping
MappingAfterSet(m, mapping) ==
    IF m \in Adapters THEN [img |-> NoneId, map |-> EmptyMap] ELSE mapping

MeasureSetExpected(m, arr) ==
    /\ expected' = SetExpectedOn(m, Content(arr), expected)
    /\ _obj_mapping' = MappingAfterSet(m, _obj_mapping)
    /\ last' = Call("m.set_expected", m, arr, TRUE, "ok", << >>)
    /\ UNCHANGED <<names, measures, results, nodetections, studyRef,
                   studyHolders, input>>

MeasureCompute(m, arr) ==
    \E r \in {Compute(m, arr, expected, _obj_mapping, nodetections)} :
        /\ expected' = r.exps
        /\ _obj_mapping' = r.mapping
        /\ last' = [Call("m.compute", m, arr, TRUE,
                         IF r.status = "ok" THEN "ok" ELSE "failed", r.ret)
                      EXCEPT !.lookups = r.lookups, !.invoked = r.invoked]
        /\ UNCHANGED <<names, measures, results, nodetections, studyRef,
                       studyHolders, input>>

\* the caller's assignment adapter.nodetections = v
SetNoDetections(a, v) ==
    /\ nodetections[a] # v
    /\ nodetections' = [nodetections EXCEPT ![a] = v]
    /\ last' = Call("m.nodetections", a, NoArr, TRUE, "ok", << >>)
    /\ UNCHANGED <<names, measures, results, expected, _obj_mapping, studyRef,
                   studyHolders, input>>

\* ---------------------------------------------------------- study.py calls
\* '%d' % id(measure)
DefaultName(m) == "id:" \o m

add_measure(m, name) ==
    LET key == IF name = None THEN DefaultName(m) ELSE name
    IN  /\ key \in DOMAIN measures \/ Len(names) < MaxMeasures
        /\ names' = IF key \in DOMAIN measures THEN names ELSE Append(names, key)
        /\ measures' = PutMap(measures, key, m)
        /\ results' = PutMap(results, key, << >>)
        /\ last' = [Call("add_measure", m, NoArr, TRUE, "ok", << >>)
                      EXCEPT !.computed = PutMap(EmptyMap, key, << >>)]
        /\ UNCHANGED <<expected, nodetections, _obj_mapping, studyRef,
                       studyHolders, input>>

\* lines 58-61: the image the measures receive, if the assertions pass
ExpectedAcceptedNoMin(arr, unique) ==
    /\ ndim(squeeze(arr)) = 2
    /\ _get_labeled_ok(squeeze(arr), unique)
ExpectedAccepted(arr, unique) ==
    /\ ArrayMin(arr) = 0
    /\ ndim(squeeze(arr)) = 2
    /\ _get_labeled_ok(squeeze(arr), unique)

\* lines 76-78
ActualAccepted(arr, unique) ==
    /\ ndim(squeeze(arr)) = 2
    /\ _get_labeled_ok(squeeze(arr), unique)

\* lines 62-64: measure.set_expected(expected) for the measures from index i on
PropagateFirstOnly(i, exp, st) ==
    IF i > Len(names) THEN st
    ELSE [exps    |-> SetExpectedOn(measures[names[i]], exp, st.exps),
          mapping |-> MappingAfterSet(measures[names[i]], st.mapping)]
RECURSIVE Propagate(_, _, _)
Propagate(i, exp, st) ==
    IF i > Len(names) THEN st
    ELSE Propagate(i + 1, exp,
            [exps    |-> SetExpectedOn(measures[names[i]], exp, st.exps),
             mapping |-> MappingAfterSet(measures[names[i]], st.mapping)])

set_expected(arr, unique) ==
    IF ~ExpectedAccepted(arr, unique)
    THEN /\ last' = Call("set_expected", "-", arr, unique, "rejected", << >>)
         /\ UNCHANGED <<names, measures, results, expected, nodetections,
                        _obj_mapping, studyRef, studyHolders, input>>
    ELSE \E exp \in {Content(_get_labeled(squeeze(arr), unique))} :
         \E st \in {Propagate(1, exp, [exps |-> expected,
                                       mapping |-> _obj_mapping])} :
             /\ expected' = st.exps
             /\ _obj_mapping' = st.mapping
             /\ studyRef' = exp
             /\ studyHolders' = {measures[k] : k \in DOMAIN measures}
             /\ last' = Call("set_expected", "-", arr, unique, "ok", << >>)
             /\ UNCHANGED <<names, measures, results, nodetections, input>>

\* line 83: self.results[measure_name] += result
AppendScoresReplace(history, result) == result
AppendScores(history, result) == history \o result

\* line 82 raising in the measure at index i: the exception leaves process,
\* what the loop did before stays
FailedStateRolledBack(st, i) ==
    [st EXCEPT !.status = "failed", !.failedAt = i, !.results = results]
FailedState(st, i) == [st EXCEPT !.status = "failed", !.failedAt = i]

\* lines 79-84: the loop over the registered measures from index i on.
\* st = [status, failedAt, results, computed, exps, mapping, lookups, invoked]
RECURSIVE ProcessLoop(_, _, _)
ProcessLoop(i, actual, st) ==
    IF i > Len(names) THEN st
    ELSE
      LET measure_name == names[i]
      IN  Bind(Compute(measures[measure_name], actual, st.exps, st.mapping,
                       nodetections), LAMBDA r :
          Bind([st EXCEPT !.exps = r.exps, !.mapping = r.mapping,
                          !.lookups = @ \o r.lookups,
                          !.invoked = @ + r.invoked], LAMBDA st1 :
          IF r.status # "ok"
          THEN FailedState(st1, i)
          ELSE Bind([st1 EXCEPT
                       !.results[measure_name] = AppendScores(@, r.ret),
                       !.computed = PutMap(@, measure_name, r.ret)],
                    LAMBDA st2 : ProcessLoop(i + 1, actual, st2))))

process(arr, unique) ==
    /\ \A k \in DOMAIN results : Len(results[k]) < MaxHistory
    /\ IF ~ActualAccepted(arr, unique)
       THEN /\ last' = Call("process", "-", arr, unique, "rejected", << >>)
            /\ UNCHANGED <<names, measures, results, expected, nodetections,
                           _obj_mapping, studyRef, studyHolders, input>>
       ELSE \E actual \in {_get_labeled(squeeze(arr), unique)} :
            \E st \in {ProcessLoop(1, actual,
                         [status |-> "ok", failedAt |-> 0, results |-> results,
                          computed |-> EmptyMap, exps |-> expected,
                          mapping |-> _obj_mapping, lookups |-> << >>,
                          invoked |-> 0])} :
                /\ results' = st.results
                /\ expected' = st.exps
                /\ _obj_mapping' = st.mapping
                /\ last' = [Call("process", "-", arr, unique, st.status, << >>)
                              EXCEPT !.computed = st.computed,
                                     !.failedAt = st.failedAt,
                                     !.lookups = st.lookups,
                                     !.invoked = st.invoked]
                /\ UNCHANGED <<names, measures, nodetections, studyRef,
                               studyHolders, input>>

\* ---------------------------------------------------------- specifications
\* a Study and its callers; the measures, names and images the callers use
\* are drawn from small sets, calls being pairs <<image, unique>>
StudyStep(ms, keys, calls) ==
    \/ \E m \in ms, n \in keys : add_measure(m, n)
    \/ \E c \in calls : set_expected(c[1], c[2])
    \/ \E c \in calls : process(c[1], c[2])
    \/ \E v \in Sentinels : SetNoDetections("A1", v)

\* a Study with an adapter and an image measure
NextStudy == StudyStep(StudyMeasures, StudyNames, StudyCalls)
Spec == Init /\ [][NextStudy]_vars

\* a Study with one adapter, called with equal and with distinct array objects
NextCache == StudyStep({"A1"}, {"n1"}, CacheCalls)
SpecCache == Init /\ [][NextCache]_vars

\* a Study called with well-formed and with malformed images
NextValidate == StudyStep({"A1"}, ValidateNames, ValidateCalls)
SpecValidate == Init /\ [][NextValidate]_vars

\* measures used directly, without a Study
NextMeasure ==
    \/ \E m \in MeasureObjs, arr \in RefImages : MeasureSetExpected(m, arr)
    \/ \E m \in MeasureObjs, arr \in CandImages : MeasureCompute(m, arr)
    \/ \E a \in Adapters, v \in Sentinels : SetNoDetections(a, v)

SpecMeasure == Init /\ [][NextMeasure]_vars

\* one adapter given one reference and one candidate, over every pair of
\* labelled images on the grid
InitGrid == \E inp \in GridInputs : InitWith(inp)
NextGrid ==
    \/ MeasureSetExpected(input.m, input.ref)
    \/ expected[input.m] # NoRef /\ MeasureCompute(input.m, input.cand)

SpecGrid == InitGrid /\ [][NextGrid]_vars

\* ------------------------------------------------------------------ claims
IsProcess(l) == l.op = "process" /\ l.outcome # "rejected"
\* the array object Study.process hands to every compute
HandedOver(l) == _get_labeled(squeeze(l.arr), l.unique)
Recomputed(l) == {i \in DOMAIN l.lookups : ~l.lookups[i].hit}
CacheHits(l)  == {i \in DOMAIN l.lookups : l.lookups[i].hit}
AdapterRegistered == \E k \in DOMAIN measures : measures[k] \in Adapters

\* C1 as stated: of two consecutive Study.process calls with an adapter
\* registered and a reference with objects set, the second recomputes the
\* pruning of some reference object if and only if the caller passed a
\* different array object than in the first call.
C1_RecomputeIffOtherInstance ==
    [][(/\ IsProcess(last) /\ IsProcess(last')
        /\ AdapterRegistered
        /\ \A k \in DOMAIN measures : LabelsOf(expected[measures[k]]) # {}
        /\ LabelsOf(Content(last.arr)) # {}
        /\ LabelsOf(Content(last'.arr)) # {})
       => ((Recomputed(last') # {}) <=> (last'.arr.id # last.arr.id))]_vars

\* C1 amended: of two directly consecutive Study.process calls, when Study
\* hands compute the very same array object both times (same instance,
\* unique=True, nothing to squeeze) the second call recomputes no pruning;
\* when it hands over another object (another instance, a relabelled copy
\* with unique=False, or a squeezed view) no cached list survives: the
\* first lookup of every reference label in the second call is recomputed.
C1_ReuseOnlyForSameObject ==
    [][(IsProcess(last) /\ IsProcess(last'))
       => IF /\ HandedOver(last').id = HandedOver(last).id
             /\ HandedOver(last').id # FreshId
          THEN Recomputed(last') = {}
          ELSE \A i \in CacheHits(last') :
                  \E j \in 1..(i - 1) :
                     last'.lookups[j].label = last'.lookups[i].label]_vars

\* a second process call on the same object that took a cached list
C1_Witness ==
    /\ IsProcess(last) /\ last.arr = ImgTwo /\ last.unique
    /\ CacheHits(last) # {} /\ Recomputed(last) = {}

C7_NoDetections ==
    (/\ last.op = "m.compute" /\ last.m \in Adapters
     /\ expected[last.m] # NoRef
     /\ LabelsOf(Content(last.arr)) = {})
    => /\ last.outcome = "ok"
       /\ last.invoked = 0
       /\ last.ret = IF nodetections[last.m] < 0 THEN << >>
                     ELSE [i \in 1..Cardinality(LabelsOf(expected[last.m])) |->
                             Frac(nodetections[last.m], 1)]

C7_Witness ==
    /\ last.op = "m.compute" /\ last.m \in Adapters
    /\ Cardinality(LabelsOf(expected[last.m])) = 2
    /\ LabelsOf(Content(last.arr)) = {}
    /\ nodetections[last.m] = 0
    /\ Len(last.ret) = 2

\* C8 as stated: whenever compute takes a cache hit for reference label r,
\* the cached list is the list the pruning would compute from the calling
\* adapter's reference and the given candidate.
CoherentHits ==
    \A i \in CacheHits(last) :
        last.lookups[i].list
          = Prune(expected[last.m], last.lookups[i].label, Content(last.arr))

C8_CacheCoherent == last.op = "m.compute" => CoherentHits

\* C8 amended: the cached list of a hit is the list the pruning would
\* compute, provided every adapter that has a reference holds the same
\* reference image as the calling adapter.
C8_CoherentUnderOneReference ==
    (/\ last.op = "m.compute"
     /\ \A a \in Adapters : expected[a] \in {NoRef, expected[last.m]})
    => CoherentHits

C8_Witness ==
    /\ last.op = "m.compute" /\ CacheHits(last) # {}
    /\ expected["A1"] = expected["A2"]

\* the history of key k before a step, empty if k was not registered
Before(k) == IF k \in DOMAIN results THEN results[k] ELSE << >>

\* C4 as stated: the history of every name is the concatenation of the score
\* lists the process calls returned for it: a step changes a history only by
\* appending what a returning process call returned for that name.
C4_HistoryIsAllReturned ==
    [][\A k \in DOMAIN results' :
          results'[k] = Before(k) \o
             (IF last'.op = "process" /\ last'.outcome = "ok"
                 /\ k \in DOMAIN last'.computed
              THEN last'.computed[k] ELSE << >>)]_vars

\* C4 amended: the history of a name is the concatenation, in call order, of
\* the score lists computed for it by every process call since the name was
\* last registered, the calls that raised in a later measure included;
\* add_measure empties the history of the name it registers, and nothing
\* else shortens a history or removes a name.
C4_HistorySinceRegistration ==
    [][/\ DOMAIN results \subseteq DOMAIN results'
       /\ \A k \in DOMAIN results' :
            results'[k] =
               IF last'.op = "add_measure" /\ k \in DOMAIN last'.computed
               THEN << >>
               ELSE Before(k) \o
                      (IF last'.op = "process" /\ k \in DOMAIN last'.computed
                       THEN last'.computed[k] ELSE << >>)]_vars

\* a history holding the scores of more than one process call
C4_Witness ==
    /\ last.op = "process" /\ last.outcome = "ok"
    /\ \E k \in DOMAIN last.computed :
          /\ Len(last.computed[k]) > 0
          /\ Len(results[k]) > Len(last.computed[k])

\* C5: process runs the measures in registration order, and when the k-th
\* compute fails, the histories of measures 1..k-1 hold the scores appended
\* in this call and those of measure k and of all later ones are unchanged.
C5_FailureKeepsEarlierScores ==
    [][(last'.op = "process" /\ last'.outcome = "failed")
       => /\ last'.failedAt \in 1..Len(names)
          /\ \A i \in 1..Len(names) :
                IF i < last'.failedAt
                THEN /\ names[i] \in DOMAIN last'.computed
                     /\ results'[names[i]]
                          = results[names[i]] \o last'.computed[names[i]]
                ELSE /\ names[i] \notin DOMAIN last'.computed
                     /\ results'[names[i]] = results[names[i]]]_vars

\* the second measure failed after the first had added scores to a history
\* that was not empty
C5_Witness ==
    /\ last.op = "process" /\ last.outcome = "failed" /\ last.failedAt = 2
    /\ Len(last.computed[names[1]]) > 0
    /\ Len(results[names[1]]) > Len(last.computed[names[1]])

ShapeIs2D(arr) == Len(arr.shape) = 2
SqueezedIs2D(arr) == Cardinality({i \in DOMAIN arr.shape : arr.shape[i] # 1}) = 2
Malformed(arr) ==
    \/ ~ShapeIs2D(arr)
    \/ arr.dtype \notin {"int", "bool"}
    \/ \E i \in DOMAIN arr.data : \A j \in DOMAIN arr.data :
          arr.data[i] <= arr.data[j] /\ arr.data[i] # 0
StudyUntouched ==
    /\ expected' = expected /\ results' = results /\ _obj_mapping' = _obj_mapping
    /\ names' = names /\ measures' = measures

\* C6 as stated: set_expected and process reject every image that is not
\* exactly 2-dimensional, or of a type neither integral nor boolean, or of a
\* minimum other than 0, and a rejected call changes nothing.
C6_RejectsEveryMalformed ==
    [][last'.op \in {"set_expected", "process"}
       => /\ Malformed(last'.arr) => last'.outcome = "rejected"
          /\ last'.outcome = "rejected" => StudyUntouched]_vars

\* C6 amended: set_expected rejects exactly the images whose minimum is not
\* 0, or that are not 2-dimensional once their unit-length dimensions are
\* dropped, or whose type is neither integral nor boolean, or that are
\* boolean with unique=True; process rejects exactly the images of the last
\* three kinds and does not look at the minimum; a rejected call changes
\* no reference, no history and not the cache.
C6_RejectsAfterSqueeze ==
    [][last'.op \in {"set_expected", "process"}
       => LET arr == last'.arr
              bad == \/ ~SqueezedIs2D(arr)
                     \/ arr.dtype \notin {"int", "bool"}
                     \/ arr.dtype = "bool" /\ last'.unique
              nonzeroMin == \A i \in DOMAIN arr.data : arr.data[i] # 0
          IN  /\ last'.op = "set_expected"
                   => ((last'.outcome = "rejected") <=> (bad \/ nonzeroMin))
              /\ last'.op = "process"
                   => ((last'.outcome = "rejected") <=> bad)
              /\ last'.outcome = "rejected" => StudyUntouched]_vars

\* a rejected process call in a Study whose adapter holds a reference and
\* whose cache is filled
C6_Witness ==
    /\ last.op = "process" /\ last.outcome = "rejected"
    /\ AdapterRegistered /\ expected["A1"] # NoRef
    /\ DOMAIN _obj_mapping.map # {}

BruteForce(exp, r, act, fn) ==
    Reduce(fn, Distances(exp, r, act, SortedSeq(LabelsOf(act))))

AdapterScored ==
    /\ last.op = "m.compute" /\ last.m \in Adapters
    /\ LabelsOf(Content(last.arr)) # {}

\* C2: for every reference, every candidate with a foreground label, every
\* reference object r and both reductions, the score recorded for r is the
\* reduction of the scores of all foreground candidates.
C2_PruningSound ==
    AdapterScored
    => LET exp == expected[last.m]
           refs == SortedSeq(LabelsOf(exp))
       IN  /\ last.outcome = "ok"
           /\ Len(last.ret) = Len(refs)
           /\ \A i \in DOMAIN refs :
                 last.ret[i] = BruteForce(exp, refs[i], Content(last.arr),
                                          correspondance_function(last.m))

\* C10: with a foreground label in the candidate, the pruned list of every
\* reference object holds the nearest candidate and is not empty, and compute
\* returns one score per reference label.
C10_OneScorePerReference ==
    AdapterScored
    => /\ \A i \in DOMAIN last.lookups :
             closest_potential_seg_label(expected[last.m],
                 last.lookups[i].label, Content(last.arr))
               \in {last.lookups[i].list[j] : j \in DOMAIN last.lookups[i].list}
       /\ last.outcome = "ok"
       /\ Len(last.ret) = Cardinality(LabelsOf(expected[last.m]))

====
